---- MODULE Spec2Model ----
(***************************************************************************)
(* The Wayland window of tk-window, as a state machine.                    *)
(*                                                                         *)
(* Two snapshots of the Wayland client live in the repository and both are *)
(* modelled; `impl` says which one a behaviour runs:                       *)
(*   "wl"  Source/Wayland.c, called through WLWindow.h                     *)
(*   "tk"  Source/Targets/Wayland.c, called through Source/TKWindow.c      *)
(* The display server is the environment: it announces globals during the  *)
(* registry round trip and afterwards sends batches of events to the live  *)
(* proxies that have a listener.  libwayland's calls are modelled at their *)
(* call sites: a request is appended to `sent`, a constructor request adds *)
(* a proxy to `proxies`, wl_display_dispatch hands a batch to the          *)
(* listeners in arrival order or fails without calling any of them.        *)
(***************************************************************************)
EXTENDS Integers, Sequences, FiniteSets, TLC

\* ---- bounds ----------------------------------------------------------
MaxOutputs == 1      \* wl_output globals the server announces
MaxBatch   == 2      \* events handed over by one wl_display_dispatch
MaxEvents  == 2      \* events dispatched in one behaviour
WordBits   == 16     \* width of the model's uint32_t

Scales  == {1, 2}    \* factors of wl_output.scale events
Sizes   == {<<1, 2>>, <<2, 1>>}   \* logical sizes of xdg_toplevel.configure events
Serials == {1, 2}    \* serials of ping and xdg_surface.configure events
Titles  == {"Test"}  \* titles passed to windowCreate
Versions == {4, 8}      \* versions the server advertises for a global
CapLists == {<<>>, <<3>>}   \* arrays of xdg_toplevel.wm_capabilities events
OutputIgnored == {"done"}   \* of geometry, mode, done, name, description: all ignored

\* ---- program constants ----------------------------------------------
NULL == 0                                  \* nullptr

\* (uint32_t) conversion.  TLC's integers are 32 bits wide, so the model's
\* uint32_t is WordBits wide.
U32(x) == x % (2 ^ WordBits)

\* int32_t: a product of two int32_t values outside its range is a signed
\* overflow.
Overflows(a, b) == a * b > 2 ^ (WordBits - 1) - 1 \/ a * b < -(2 ^ (WordBits - 1))

VARIABLES
    impl,           \* which snapshot runs
    pc,             \* the caller: "start", "running", "failed", "destroyed"; or the
                    \* process: "crashed", "undefined" (it survived undefined behaviour)
    pDisplay, pRegistry, pCompositor, pShell, pOutput,
    pSurface, pShellSurface, pToplevel,
    pScale,         \* pScale (wl) / pScaleFactor (tk)
    pWidth, pHeight,
    pClose,         \* bool pClose (wl)
    shouldClose,    \* window.shouldClose (tk facade)
    proxies,        \* libwayland's proxy table: id -> interface, version, alive, listener
    sent,           \* every request marshalled, in order
    destroyed,      \* ids in the order they were destroyed
    displayError,   \* the wl_display has a fatal error latched / is disconnected
    ret,            \* value returned by the last bool operation
    hist            \* what the listeners have been handed so far

vars == <<impl, pc, pDisplay, pRegistry, pCompositor, pShell, pOutput, pSurface,
          pShellSurface, pToplevel, pScale, pWidth, pHeight, pClose, shouldClose,
          proxies, sent, destroyed, displayError, ret, hist>>

\* The program's memory as one record, threaded through the C functions.
\* survive: how a use of a null or dangling proxy ends in this call (undefined
\* behaviour: the process dies there, or the call carries on).  ub: such a use
\* has happened.  crashed: the process died.  new: the last constructor's return
\* value.  rc: wl_display_dispatch's return value.  The history starts each call
\* with nothing handed to a listener and nothing received.
Cur(survive) ==
    [impl |-> impl, pDisplay |-> pDisplay, pRegistry |-> pRegistry,
     pCompositor |-> pCompositor, pShell |-> pShell, pOutput |-> pOutput,
     pSurface |-> pSurface, pShellSurface |-> pShellSurface,
     pToplevel |-> pToplevel, pScale |-> pScale, pWidth |-> pWidth,
     pHeight |-> pHeight, pClose |-> pClose, shouldClose |-> shouldClose,
     proxies |-> proxies, sent |-> sent, destroyed |-> destroyed,
     displayError |-> displayError,
     hist |-> [hist EXCEPT !.handled = <<>>, !.lastBatch = <<>>], ret |-> ret,
     survive |-> survive, ub |-> FALSE, crashed |-> FALSE, new |-> NULL, rc |-> 0]

Store(m) ==
    /\ pDisplay' = m.pDisplay /\ pRegistry' = m.pRegistry
    /\ pCompositor' = m.pCompositor /\ pShell' = m.pShell /\ pOutput' = m.pOutput
    /\ pSurface' = m.pSurface /\ pShellSurface' = m.pShellSurface
    /\ pToplevel' = m.pToplevel /\ pScale' = m.pScale /\ pWidth' = m.pWidth
    /\ pHeight' = m.pHeight /\ pClose' = m.pClose /\ shouldClose' = m.shouldClose
    /\ proxies' = m.proxies /\ sent' = m.sent /\ destroyed' = m.destroyed
    /\ displayError' = m.displayError /\ hist' = m.hist /\ ret' = m.ret

\* ---- libwayland at its call sites -----------------------------------
IsLive(m, p) == p # NULL /\ p \in 1..Len(m.proxies) /\ m.proxies[p].alive

InterfaceOf(m, p) == IF p \in 1..Len(m.proxies) THEN m.proxies[p].interface ELSE "none"

VersionOf(m, p) == IF p \in 1..Len(m.proxies) THEN m.proxies[p].version ELSE 0

\* wl_proxy_marshal_flags: the request goes out on proxy p.  On a null or
\* destroyed proxy the call dereferences it.  ref says what an object argument of
\* the request refers to: "none" (the request has no object argument), "live",
\* "null" or "dead".
RefOf(m, q) == IF q = NULL THEN "null" ELSE IF IsLive(m, q) THEN "live" ELSE "dead"

MarshalRef(m, p, op, arg, ref) ==
    IF m.crashed THEN m
    ELSE [m EXCEPT !.sent = Append(@, [proxy |-> p, interface |-> InterfaceOf(m, p),
                                       op |-> op, arg |-> arg, live |-> IsLive(m, p),
                                       ref |-> ref]),
                   !.ub = @ \/ ~IsLive(m, p),
                   !.crashed = ~IsLive(m, p) /\ ~m.survive]

Marshal(m, p, op, arg) == MarshalRef(m, p, op, arg, "none")

\* A constructor request: the new proxy is returned in .new (NULL when the parent
\* was not usable).
MarshalNew(m, p, op, arg, ref, interface, version) ==
    LET m1 == MarshalRef(m, p, op, arg, ref) IN
    IF m.crashed THEN m
    ELSE IF ~IsLive(m, p) THEN [m1 EXCEPT !.new = NULL]
    ELSE [m1 EXCEPT !.proxies = Append(@, [interface |-> interface, version |-> version,
                                           alive |-> TRUE, listener |-> FALSE]),
                    !.new = Len(m.proxies) + 1]

\* wl_proxy_add_listener
AddListener(m, p) ==
    IF m.crashed THEN m
    ELSE IF ~IsLive(m, p) THEN [m EXCEPT !.ub = TRUE, !.crashed = ~m.survive]
    ELSE [m EXCEPT !.proxies[p].listener = TRUE]

\* wl_proxy_destroy: the proxy leaves the table; the C pointer keeps its value.
ProxyDestroy(m, p) ==
    IF m.crashed THEN m
    ELSE IF ~IsLive(m, p) THEN [m EXCEPT !.ub = TRUE, !.crashed = ~m.survive]
    ELSE [m EXCEPT !.proxies[p].alive = FALSE, !.destroyed = Append(@, p)]

\* A request marshalled with WL_MARSHAL_FLAG_DESTROY.
MarshalDestroy(m, p, op) == ProxyDestroy(Marshal(m, p, op, <<>>), p)

\* var = <the proxy the constructor returned>
SetNew(m, var) == [m EXCEPT ![var] = m.new]

\* The requests and calls the two files make, each on the file-scope pointer it
\* is given in the source.
wl_display_get_registry(m) ==
    MarshalNew(m, m.pDisplay, "get_registry", <<>>, "none", "wl_registry", 1)

wl_registry_bind(m, interface, version) ==
    MarshalNew(m, m.pRegistry, "bind", <<interface, version>>, "none", interface, version)

wl_compositor_create_surface(m) ==
    MarshalNew(m, m.pCompositor, "create_surface", <<>>, "none", "wl_surface",
               VersionOf(m, m.pCompositor))

xdg_wm_base_get_xdg_surface(m) ==
    MarshalNew(m, m.pShell, "get_xdg_surface", <<m.pSurface>>, RefOf(m, m.pSurface),
               "xdg_surface", VersionOf(m, m.pShell))

xdg_surface_get_toplevel(m) ==
    MarshalNew(m, m.pShellSurface, "get_toplevel", <<>>, "none", "xdg_toplevel",
               VersionOf(m, m.pShellSurface))

xdg_toplevel_set_title(m, title) == Marshal(m, m.pToplevel, "set_title", <<title>>)

xdg_toplevel_set_app_id(m, title) == Marshal(m, m.pToplevel, "set_app_id", <<title>>)

xdg_toplevel_set_fullscreen(m) ==
    MarshalRef(m, m.pToplevel, "set_fullscreen", <<m.pOutput>>, RefOf(m, m.pOutput))

wl_surface_commit(m) == Marshal(m, m.pSurface, "commit", <<>>)

add_listener(m, var) == AddListener(m, m[var])

\* ---- listeners of Source/Wayland.c ------------------------------------
\* An event is [kind, obj, args]: the event's name, the proxy it is addressed to
\* and its integer arguments.  Logging is not modelled, so the states array of
\* xdg_toplevel.configure, which topConfigure only logs, is left out.
ping_otherSerial(m, b, s) == Marshal(m, b, "pong", <<s + 1>>)

ping(m, b, s) == Marshal(m, b, "pong", <<s>>)

configure_logOnly(m, t, s) == m

configure(m, t, s) == Marshal(m, t, "ack_configure", <<s>>)

topConfigure_logical(m, w, h) ==
    wl_surface_commit([m EXCEPT !.pWidth = U32(w), !.pHeight = U32(h)])

\* w * pScale and h * pScale are int32_t products, converted afterwards: a
\* product that overflows is undefined; where the call survives it is the
\* wrapped value that gets stored.
SignedProducts(m, w, h) ==
    [m EXCEPT !.ub = @ \/ Overflows(w, m.pScale) \/ Overflows(h, m.pScale),
              !.crashed = (Overflows(w, m.pScale) \/ Overflows(h, m.pScale))
                          /\ ~m.survive]

topConfigure(m, w, h) ==
    wl_surface_commit([SignedProducts(m, w, h) EXCEPT !.pWidth = U32(w * m.pScale),
                                                     !.pHeight = U32(h * m.pScale)])

close_teardown(m) == MarshalDestroy([m EXCEPT !.pClose = TRUE], m.pToplevel, "destroy")

close(m) == [m EXCEPT !.pClose = TRUE]

bounds(m, w, h) == m

capabilities_fatal(m, c) ==
    IF \E i \in 1..Len(c) : c[i] = 3 THEN m ELSE [m EXCEPT !.pClose = TRUE]

capabilities(m, c) == m

\* geometry, mode, finish, name, description: empty bodies
outputIgnore(m) == m

scale(m, s) == [m EXCEPT !.pScale = s]

\* A bind that returned nullptr is logged and gets no listener.
\* .version of xdg_wm_base_interface
xdg_wm_base_version == 7

listenIfBound_never(m, var) == m

listenIfBound(m, var) == IF m[var] = NULL THEN m ELSE add_listener(m, var)

handleGlobal(m, interface, version) ==
    IF interface = "wl_compositor"
        THEN SetNew(wl_registry_bind(m, interface, version), "pCompositor")
    ELSE IF interface = "xdg_wm_base"
        THEN listenIfBound(SetNew(wl_registry_bind(m, interface, version), "pShell"),
                           "pShell")
    ELSE IF interface = "wl_output"
        THEN listenIfBound(SetNew(wl_registry_bind(m, interface, version), "pOutput"),
                           "pOutput")
    ELSE m

handleGlobalRemove(m) == m

\* ---- listeners of Source/Targets/Wayland.c ---------------------------
rpgtk_windowClose(m) == [m EXCEPT !.shouldClose = TRUE]

handleConfigure(m, shellSurface, serial) ==
    Marshal(m, shellSurface, "ack_configure", <<serial>>)

handleTopClose(m) == rpgtk_windowClose(m)

handleTopConfigure(m, width, height) ==
    [m EXCEPT !.pWidth = U32(width), !.pHeight = U32(height)]

handleTopConfigureBounds(m, width, height) == m

handleCapabilities(m, c) == m

handleScale(m, factor) == [m EXCEPT !.pScale = factor]

handlePing(m, shell, serial) == Marshal(m, shell, "pong", <<serial>>)

tkwin_handleGlobal(m, interface) ==
    IF interface = "wl_compositor"
        THEN SetNew(wl_registry_bind(m, interface, 1), "pCompositor")
    ELSE IF interface = "xdg_wm_base"
        THEN add_listener(SetNew(wl_registry_bind(m, interface, 1), "pShell"), "pShell")
    ELSE IF interface = "wl_output"
        THEN add_listener(SetNew(wl_registry_bind(m, interface, 2), "pOutput"), "pOutput")
    ELSE m

\* ---- event dispatch ---------------------------------------------------
\* The events whose order the history keeps: those that decide the close flag
\* and the size.
Tracked(batch) ==
    SelectSeq(batch, LAMBDA e : e.kind \in {"close", "toplevel_configure", "scale"})

\* What the history keeps of a delivered event.
Note(h, e) ==
    [h EXCEPT !.calls = IF e.kind = "global" THEN @ ELSE @ + 1,
              !.closeSeen = @ \/ e.kind = "close",
              !.logical = IF e.kind = "toplevel_configure" THEN e.args ELSE @,
              !.scale = IF e.kind = "scale" THEN e.args[1] ELSE @,
              !.resized = IF e.kind = "scale" THEN FALSE
                          ELSE IF e.kind = "toplevel_configure" THEN TRUE ELSE @,
              !.pings = IF e.kind = "ping"
                        THEN Append(@, [obj |-> e.obj, serial |-> e.args[1],
                                        afterClose |-> h.closeSeen])
                        ELSE @,
              !.configures = IF e.kind = "configure" THEN Append(@, e.args[1]) ELSE @,
              !.caps = IF e.kind = "wm_capabilities" THEN @ + 1 ELSE @,
              !.advertised = IF e.kind = "global" /\ e.args[1] = "xdg_wm_base"
                             THEN e.args[2] ELSE @,
              !.handled = @ \o Tracked(<<e>>)]

\* The listener table of the addressed proxy, by the event's opcode.
Listener(m, e) ==
    IF m.impl = "wl" THEN
        CASE e.kind = "ping" -> ping(m, e.obj, e.args[1])
          [] e.kind = "configure" -> configure(m, e.obj, e.args[1])
          [] e.kind = "toplevel_configure" -> topConfigure(m, e.args[1], e.args[2])
          [] e.kind = "close" -> close(m)
          [] e.kind = "configure_bounds" -> bounds(m, e.args[1], e.args[2])
          [] e.kind = "wm_capabilities" -> capabilities(m, e.args)
          [] e.kind = "scale" -> scale(m, e.args[1])
          [] e.kind = "global" -> handleGlobal(m, e.args[1], e.args[2])
          [] e.kind = "global_remove" -> handleGlobalRemove(m)
          [] OTHER -> outputIgnore(m)
    ELSE
        CASE e.kind = "ping" -> handlePing(m, e.obj, e.args[1])
          [] e.kind = "configure" -> handleConfigure(m, e.obj, e.args[1])
          [] e.kind = "toplevel_configure" -> handleTopConfigure(m, e.args[1], e.args[2])
          [] e.kind = "close" -> handleTopClose(m)
          [] e.kind = "configure_bounds" ->
                 handleTopConfigureBounds(m, e.args[1], e.args[2])
          [] e.kind = "wm_capabilities" -> handleCapabilities(m, e.args)
          [] e.kind = "scale" -> handleScale(m, e.args[1])
          [] e.kind = "global" -> tkwin_handleGlobal(m, e.args[1])
          [] e.kind = "global_remove" -> handleGlobalRemove(m)
          [] OTHER -> outputIgnore(m)

Deliver_dropAfterClose(m, e) ==
    IF m.crashed \/ m.hist.closeSeen THEN m
    ELSE IF ~(IsLive(m, e.obj) /\ m.proxies[e.obj].listener) THEN m
    ELSE Listener([m EXCEPT !.hist = Note(@, e)], e)

\* libwayland's dispatch of one event: an event for a proxy that is gone or has
\* no listener is dropped.
Deliver(m, e) ==
    IF m.crashed THEN m
    ELSE IF ~IsLive(m, e.obj) THEN m
    ELSE IF ~m.proxies[e.obj].listener THEN [m EXCEPT !.hist.dropped = TRUE]
    ELSE Listener([m EXCEPT !.hist = Note(@, e)], e)

RECURSIVE DispatchAll(_, _)
DispatchAll(m, batch) ==
    IF batch = <<>> THEN m
    ELSE DispatchAll(Deliver(m, Head(batch)), Tail(batch))

\* wl_display_dispatch: -1 when the connection is broken or the read fails, else
\* the number of events dispatched, each handed to its listener in arrival order.
wl_display_dispatch(m, readFails, batch) ==
    IF m.crashed THEN m
    ELSE IF ~IsLive(m, m.pDisplay)
        THEN [m EXCEPT !.ub = TRUE, !.crashed = ~m.survive, !.rc = -1]
    ELSE IF m.displayError \/ readFails THEN [m EXCEPT !.displayError = TRUE, !.rc = -1]
    ELSE [DispatchAll(m, batch) EXCEPT !.rc = Len(batch)]

\* wl_display_roundtrip: a sync request, then everything the server sent up to
\* its answer is dispatched.
wl_display_sync(m) == Marshal(m, m.pDisplay, "sync", <<>>)

wl_display_roundtrip(m, batch) == DispatchAll(wl_display_sync(m), batch)

\* wl_display_connect: the display proxy, or NULL.
wl_display_connect(m, connects) ==
    IF connects
    THEN [m EXCEPT !.proxies = Append(@, [interface |-> "wl_display", version |-> 0,
                                          alive |-> TRUE, listener |-> FALSE]),
                   !.new = Len(m.proxies) + 1]
    ELSE [m EXCEPT !.new = NULL]

\* wl_display_disconnect
wl_display_disconnect(m) == ProxyDestroy(m, m.pDisplay)

\* ---- Source/Wayland.c: the window ------------------------------------
\* globals: the registry's global events of the round trip, in arrival order.
windowCreate_connectUnchecked(m, title, connects, globals) ==
    LET m1 == SetNew(wl_display_connect(m, connects), "pDisplay")
        m2 == SetNew(wl_display_get_registry(m1), "pRegistry")
        m3 == add_listener(m2, "pRegistry")
        m4 == wl_display_roundtrip(m3, globals)
        m5 == SetNew(wl_compositor_create_surface(m4), "pSurface")
        m6 == SetNew(xdg_wm_base_get_xdg_surface(m5), "pShellSurface")
        m7 == add_listener(m6, "pShellSurface")
        m8 == SetNew(xdg_surface_get_toplevel(m7), "pToplevel")
        m9 == xdg_toplevel_set_title(m8, title)
        m10 == xdg_toplevel_set_app_id(m9, title)
        m11 == xdg_toplevel_set_fullscreen(m10)
        m12 == add_listener(m11, "pToplevel")
    IN  IF m4.pCompositor = NULL \/ m4.pShell = NULL THEN [m4 EXCEPT !.ret = FALSE]
        ELSE [m12 EXCEPT !.ret = TRUE]

windowCreate(m, title, connects, globals) ==
    LET m1 == SetNew(wl_display_connect(m, connects), "pDisplay")
        m2 == SetNew(wl_display_get_registry(m1), "pRegistry")
        m3 == add_listener(m2, "pRegistry")
        m4 == wl_display_roundtrip(m3, globals)
        m5 == SetNew(wl_compositor_create_surface(m4), "pSurface")
        m6 == SetNew(xdg_wm_base_get_xdg_surface(m5), "pShellSurface")
        m7 == add_listener(m6, "pShellSurface")
        m8 == SetNew(xdg_surface_get_toplevel(m7), "pToplevel")
        m9 == xdg_toplevel_set_title(m8, title)
        m10 == xdg_toplevel_set_app_id(m9, title)
        m11 == xdg_toplevel_set_fullscreen(m10)
        m12 == add_listener(m11, "pToplevel")
    IN  IF m1.pDisplay = NULL THEN [m1 EXCEPT !.ret = FALSE]
        ELSE IF m4.pCompositor = NULL \/ m4.pShell = NULL THEN [m4 EXCEPT !.ret = FALSE]
        ELSE [m12 EXCEPT !.ret = TRUE]

xdg_toplevel_destroy(m) == MarshalDestroy(m, m.pToplevel, "destroy")

xdg_surface_destroy(m) == MarshalDestroy(m, m.pShellSurface, "destroy")

xdg_wm_base_destroy(m) == MarshalDestroy(m, m.pShell, "destroy")

wl_surface_destroy(m) == MarshalDestroy(m, m.pSurface, "destroy")

wl_compositor_destroy(m) == ProxyDestroy(m, m.pCompositor)

wl_output_release(m) == MarshalDestroy(m, m.pOutput, "release")

wl_registry_destroy(m) == ProxyDestroy(m, m.pRegistry)

windowDestroy(m) ==
    wl_display_disconnect(
      wl_registry_destroy(
        wl_output_release(
          wl_compositor_destroy(
            wl_surface_destroy(
              xdg_wm_base_destroy(
                xdg_surface_destroy(
                  xdg_toplevel_destroy(m))))))))

windowProcess_notZero(m, readFails, batch) ==
    LET m1 == wl_display_dispatch(m, readFails, batch)
    IN  [m1 EXCEPT !.ret = (m1.rc # 0)]

windowProcess(m, readFails, batch) ==
    LET m1 == wl_display_dispatch(m, readFails, batch)
    IN  [m1 EXCEPT !.ret = (m1.rc # -1)]

windowGetSize(m) == <<m.pWidth, m.pHeight>>

windowGetData(m) == <<m.pDisplay, m.pSurface>>

\* WLWindow.h
waterlily_windowClose(m) == [m EXCEPT !.pClose = TRUE]

\* ---- Source/Targets/Wayland.c: the window ------------------------------
\* tkwin_waylandCreate up to and including its first wl_surface_commit.
tkwin_waylandCreateBegin(m, connects, globals) ==
    LET m1 == SetNew(wl_display_connect(m, connects), "pDisplay")
        m2 == SetNew(wl_display_get_registry(m1), "pRegistry")
        m3 == add_listener(m2, "pRegistry")
        m4 == wl_display_roundtrip(m3, globals)
        m5 == SetNew(wl_compositor_create_surface(m4), "pSurface")
        m6 == SetNew(xdg_wm_base_get_xdg_surface(m5), "pShellSurface")
        m7 == add_listener(m6, "pShellSurface")
        m8 == SetNew(xdg_surface_get_toplevel(m7), "pToplevel")
        m9 == add_listener(m8, "pToplevel")
        m10 == xdg_toplevel_set_title(m9, "Stormsinger")
        m11 == xdg_toplevel_set_app_id(m10, "Stormsinger")
        m12 == xdg_toplevel_set_fullscreen(m11)
    IN  IF m1.pDisplay = NULL THEN [m1 EXCEPT !.ret = FALSE]
        ELSE wl_surface_commit(m12)

\* tkwin_waylandCreate from its second round trip on.  batch: what the server
\* sends before it answers that round trip.
tkwin_waylandCreateEnd(m1, batch) ==
    IF m1.pDisplay = NULL THEN m1
    ELSE [wl_surface_commit(wl_display_roundtrip(m1, batch)) EXCEPT !.ret = TRUE]

tkwin_waylandCreate(m, connects, globals, batch) ==
    tkwin_waylandCreateEnd(tkwin_waylandCreateBegin(m, connects, globals), batch)

tkwin_waylandDestroy(m) == m

tkwin_waylandPoll_reconnect(m, readFails, batch) ==
    LET m1 == wl_display_dispatch(m, readFails, batch)
    IN  [m1 EXCEPT !.ret = (m1.rc # -1), !.displayError = FALSE]

tkwin_waylandPoll(m, readFails, batch) ==
    LET m1 == wl_display_dispatch(m, readFails, batch)
    IN  [m1 EXCEPT !.ret = (m1.rc # -1)]

tkwin_waylandGetFramebufferSize(m) ==
    <<U32(m.pWidth * m.pScale), U32(m.pHeight * m.pScale)>>

tkwin_waylandGetSurfaceData(m) == <<m.pDisplay, m.pSurface>>

\* ---- Source/TKWindow.c: the facade -----------------------------------
\* The title goes no further: tkwin_waylandCreate takes no argument.
rpgtk_windowCreate(m, title, connects, globals, batch) ==
    tkwin_waylandCreate(m, connects, globals, batch)

rpgtk_windowDestroy(m) == tkwin_waylandDestroy(m)

rpgtk_windowProcess(m, readFails, batch) ==
    LET m1 == tkwin_waylandPoll(m, readFails, batch)
        m2 == [m1 EXCEPT !.shouldClose = m1.ret]
    IN  [m2 EXCEPT !.ret = m2.shouldClose]

rpgtk_windowGetSize(m) == tkwin_waylandGetFramebufferSize(m)

rpgtk_windowGetData(m) == tkwin_waylandGetSurfaceData(m)

\* ---- Source/Wayland.c: the interface descriptors -----------------------
\* A wl_message: its name and its signature, character by character; {0} is the
\* entry with neither.
Message(name, signature) == [name |-> name, signature |-> signature]

Zero == Message("", <<>>)

methods(interface) ==
    CASE interface = "xdg_toplevel" ->
           <<Message("destroy", <<>>), Zero, Message("set_title", <<"s">>),
             Message("set_app_id", <<"s">>), Zero, Zero, Zero, Zero, Zero, Zero, Zero,
             Message("set_fullscreen", <<"?", "o">>), Zero, Zero>>
      [] interface = "xdg_surface" ->
           <<Message("destroy", <<>>), Message("get_toplevel", <<"n">>), Zero, Zero,
             Message("ack_configure", <<"u">>)>>
      [] interface = "xdg_wm_base" ->
           <<Message("destroy", <<>>), Zero, Message("get_xdg_surface", <<"n", "o">>),
             Message("pong", <<"u">>)>>
      [] OTHER -> <<>>

method_count(interface) ==
    CASE interface = "xdg_toplevel" -> 14
      [] interface = "xdg_surface" -> 5
      [] interface = "xdg_wm_base" -> 4
      [] OTHER -> 0

events(interface) ==
    CASE interface = "xdg_toplevel" ->
           <<Message("configure", <<"i", "i", "a">>), Message("close", <<>>),
             Message("configure_bounds", <<"4", "i", "i">>),
             Message("wm_capabilities", <<"5", "a">>)>>
      [] interface = "xdg_surface" -> <<Message("configure", <<"u">>)>>
      [] interface = "xdg_wm_base" -> <<Message("ping", <<"u">>)>>
      [] OTHER -> <<>>

event_count(interface) ==
    CASE interface = "xdg_toplevel" -> 4
      [] interface = "xdg_surface" -> 1
      [] interface = "xdg_wm_base" -> 1
      [] OTHER -> 0

\* The argument kinds of a signature: the since-version digits and the
\* nullable mark are not arguments.
Kinds(signature) ==
    SelectSeq(signature,
              LAMBDA ch : ch \notin {"?", "0", "1", "2", "3", "4", "5", "6", "7", "8", "9"})

\* The opcode each wl_proxy_marshal_flags call of the file passes, by the
\* request the call is written to send.
RawOpcode_fullscreenAsMaximized(interface, op) ==
    CASE op = "destroy" -> 0
      [] op = "get_toplevel" -> 1
      [] op = "get_xdg_surface" -> 2
      [] op = "set_title" -> 2
      [] op = "set_app_id" -> 3
      [] op = "pong" -> 3
      [] op = "ack_configure" -> 4
      [] op = "set_fullscreen" -> 9
      [] OTHER -> -1

RawOpcode(interface, op) ==
    CASE op = "destroy" -> 0
      [] op = "get_toplevel" -> 1
      [] op = "get_xdg_surface" -> 2
      [] op = "set_title" -> 2
      [] op = "set_app_id" -> 3
      [] op = "pong" -> 3
      [] op = "ack_configure" -> 4
      [] op = "set_fullscreen" -> 11
      [] OTHER -> -1

\* The kinds of the arguments each of those calls passes after the flags.
Passed(op) ==
    CASE op = "destroy" -> <<>>
      [] op = "get_toplevel" -> <<"n">>
      [] op = "get_xdg_surface" -> <<"n", "o">>
      [] op = "set_title" -> <<"s">>
      [] op = "set_app_id" -> <<"s">>
      [] op = "pong" -> <<"u">>
      [] op = "ack_configure" -> <<"u">>
      [] op = "set_fullscreen" -> <<"o">>
      [] OTHER -> <<"none">>

\* The listener tables: the callbacks in the order of the initialisers, each
\* with the event it is written for and the kinds of its parameters after the
\* proxy.
Callback(name, event, takes) == [name |-> name, event |-> event, takes |-> takes]

listener(interface) ==
    CASE interface = "xdg_toplevel" ->
           <<Callback("topConfigure", "configure", <<"i", "i", "a">>),
             Callback("close", "close", <<>>),
             Callback("bounds", "configure_bounds", <<"i", "i">>),
             Callback("capabilities", "wm_capabilities", <<"a">>)>>
      [] interface = "xdg_surface" -> <<Callback("configure", "configure", <<"u">>)>>
      [] interface = "xdg_wm_base" -> <<Callback("ping", "ping", <<"u">>)>>
      [] OTHER -> <<>>

\* ---- the display server ------------------------------------------------
Seqs(S, n) == UNION {[1..k -> S] : k \in 0..n}

\* The events the server can address to proxy p.
EventsOf(m, p) ==
    LET E(kind, argset) == {[kind |-> kind, obj |-> p, args |-> a] : a \in argset}
        i == m.proxies[p].interface
    IN
    IF i = "xdg_wm_base" THEN E("ping", {<<s>> : s \in Serials})
    ELSE IF i = "xdg_surface" THEN E("configure", {<<s>> : s \in Serials})
    ELSE IF i = "xdg_toplevel" THEN
        E("toplevel_configure", Sizes) \cup E("close", {<<>>})
        \cup E("configure_bounds", {<<1, 1>>}) \cup E("wm_capabilities", CapLists)
    ELSE IF i = "wl_output" THEN
        E("scale", {<<s>> : s \in Scales})
        \cup UNION {E(k, {<<>>}) : k \in OutputIgnored}
    ELSE {}

\* Events go to the proxies the client holds.
Events(m) ==
    UNION {EventsOf(m, p) : p \in {q \in 1..Len(m.proxies) : m.proxies[q].alive}}

\* The registry's announcements of the first round trip: global events on the
\* registry, which is the second proxy the client creates.  A server has one
\* wl_compositor and one xdg_wm_base global; it may have several outputs.
Global(m, i, v) == [kind |-> "global", obj |-> Len(m.proxies) + 2, args |-> <<i, v>>]

Repeat(x, n) == [k \in 1..n |-> x]

\* What the registry announces during the bootstrap round trip: the compositor
\* or not, the shell or not, then up to MaxOutputs outputs.
Announcements(m) ==
    {(IF c THEN <<Global(m, "wl_compositor", v)>> ELSE <<>>)
        \o (IF sh THEN <<Global(m, "xdg_wm_base", v)>> ELSE <<>>)
        \o Repeat(Global(m, "wl_output", v), n) :
        c \in BOOLEAN, sh \in BOOLEAN, n \in 0..MaxOutputs, v \in Versions}

Min(a, b) == IF a <= b THEN a ELSE b

\* What one dispatch hands over, within the bound on the events of a behaviour.
Batches(m) == Seqs(Events(m), Min(MaxBatch, MaxEvents - m.hist.calls))

\* ---- the state machine -------------------------------------------------
Init ==
    /\ impl \in {"wl", "tk"}
    /\ pc = "start"
    /\ pDisplay = NULL /\ pRegistry = NULL /\ pCompositor = NULL /\ pShell = NULL
    /\ pOutput = NULL /\ pSurface = NULL /\ pShellSurface = NULL /\ pToplevel = NULL
    /\ pScale = 0 /\ pWidth = 0 /\ pHeight = 0
    /\ pClose = FALSE
    /\ shouldClose = TRUE
    /\ proxies = <<>> /\ sent = <<>> /\ destroyed = <<>>
    /\ displayError = FALSE
    /\ ret = TRUE
    /\ hist = [calls |-> 0, closeSeen |-> FALSE, logical |-> <<>>, scale |-> 0,
               pings |-> <<>>, configures |-> <<>>,
               lastFail |-> <<>>, failed |-> FALSE, failCalls |-> 0,
               failedAgain |-> FALSE, handled |-> <<>>, lastBatch |-> <<>>,
               resized |-> FALSE, advertised |-> 0, title |-> "",
               dropped |-> FALSE, caps |-> 0]

\* What the listeners can change.
Core(m) == [pWidth |-> m.pWidth, pHeight |-> m.pHeight, pScale |-> m.pScale,
            pClose |-> m.pClose, shouldClose |-> m.shouldClose, sent |-> m.sent,
            proxies |-> m.proxies, calls |-> m.hist.calls]

\* The history of the dispatches.  core: the memory as windowProcess or
\* tkwin_waylandPoll leaves it; m: as the operation called leaves it.
\* lastFail: the last dispatch that found the transport broken, with the memory
\* before and after it.  failed, failCalls: a dispatch has returned false, and
\* the events handled up to then.  failedAgain: a dispatch was called after that.
\* lastBatch: what this call read of what the server had sent; handled (kept by
\* Note): what the listeners were handed in this call; of both, the events
\* tracked.
Received(m, batch) ==
    [m EXCEPT !.hist.lastBatch = IF m.rc = -1 THEN <<>> ELSE Tracked(batch)]

Polled(core, m, batch) ==
    [Received(m, batch)
       EXCEPT !.hist.lastFail = IF core.displayError
                                THEN [ret |-> core.ret, before |-> Core(Cur(TRUE)),
                                      after |-> Core(core)]
                                ELSE @,
              !.hist.failed = @ \/ ~m.ret,
              !.hist.failCalls = IF ~hist.failed /\ ~m.ret THEN hist.calls ELSE @,
              !.hist.failedAgain = @ \/ hist.failed]

\* The title the caller passes to the create call.
Called(m, title) == [m EXCEPT !.hist.title = title]

\* How a call ends: as it does when undefined behaviour is survived, or, when
\* there was undefined behaviour, also with the process dead.
Outcomes(survived, died) == IF survived.ub THEN {survived, died} ELSE {survived}

\* What the caller does with the result of a call.
After(m, next) ==
    /\ m.survive \/ m.crashed
    /\ Store(m)
    /\ pc' = IF m.crashed THEN "crashed" ELSE IF m.ub THEN "undefined" ELSE next
    /\ UNCHANGED impl

WindowCreate ==
    /\ impl = "wl" /\ pc = "start"
    /\ \E title \in Titles, connects \in BOOLEAN, survive \in BOOLEAN :
       \E globals \in Announcements(Cur(survive)) :
       \E m \in {windowCreate(Called(Cur(survive), title), title, connects, globals)} :
          After(m, IF m.ret THEN "running" ELSE "failed")

WindowProcess ==
    /\ impl = "wl" /\ pc = "running"
    /\ \E readFails \in BOOLEAN :
       \E batch \in IF readFails THEN {<<>>} ELSE Batches(Cur(TRUE)) :
       \E core \in Outcomes(windowProcess(Cur(TRUE), readFails, batch),
                            windowProcess(Cur(FALSE), readFails, batch)) :
       \E m \in {Polled(core, core, batch)} :
          After(m, "running")

WindowClose ==
    /\ impl = "wl" /\ pc = "running"
    /\ \E m \in {waterlily_windowClose(Cur(TRUE))} : After(m, "running")

WindowDestroy ==
    /\ impl = "wl" /\ pc = "running"
    /\ \E survive \in BOOLEAN :
       \E m \in {windowDestroy(Cur(survive))} : After(m, "destroyed")

RpgtkWindowCreate ==
    /\ impl = "tk" /\ pc = "start"
    /\ \E title \in Titles, connects \in BOOLEAN, survive \in BOOLEAN :
       \E globals \in Announcements(Cur(survive)) :
       \E begin \in {tkwin_waylandCreateBegin(Called(Cur(survive), title),
                                              connects, globals)} :
       \E batch \in Batches(begin) :
       \E m \in {Received(tkwin_waylandCreateEnd(begin, batch), batch)} :
          After(m, IF m.ret THEN "running" ELSE "failed")

RpgtkWindowProcess ==
    /\ impl = "tk" /\ pc = "running"
    /\ \E readFails \in BOOLEAN :
       \E batch \in IF readFails THEN {<<>>} ELSE Batches(Cur(TRUE)) :
       \E core \in Outcomes(tkwin_waylandPoll(Cur(TRUE), readFails, batch),
                            tkwin_waylandPoll(Cur(FALSE), readFails, batch)) :
       \E m \in {Polled(core, rpgtk_windowProcess(Cur(core.survive), readFails, batch),
                        batch)} :
          After(m, "running")

TkwinWaylandPoll ==
    /\ impl = "tk" /\ pc = "running"
    /\ \E readFails \in BOOLEAN :
       \E batch \in IF readFails THEN {<<>>} ELSE Batches(Cur(TRUE)) :
       \E core \in Outcomes(tkwin_waylandPoll(Cur(TRUE), readFails, batch),
                            tkwin_waylandPoll(Cur(FALSE), readFails, batch)) :
       \E m \in {Polled(core, core, batch)} :
          After(m, "running")

RpgtkWindowClose ==
    /\ impl = "tk" /\ pc = "running"
    /\ \E m \in {rpgtk_windowClose(Cur(TRUE))} : After(m, "running")

RpgtkWindowDestroy ==
    /\ impl = "tk" /\ pc = "running"
    /\ \E m \in {rpgtk_windowDestroy(Cur(TRUE))} : After(m, "destroyed")

Next ==
    \/ WindowCreate
    \/ WindowProcess
    \/ WindowClose
    \/ WindowDestroy
    \/ RpgtkWindowCreate
    \/ RpgtkWindowProcess
    \/ TkwinWaylandPoll
    \/ RpgtkWindowClose
    \/ RpgtkWindowDestroy

Spec == Init /\ [][Next]_vars

\* ---- a caller that goes on after the window was destroyed ---------------
\* Neither file resets its pointers or keeps a flag in the destroy function, so
\* the calls below run the same code on what is left.
WindowProcessDestroyed ==
    /\ impl = "wl" /\ pc = "destroyed"
    /\ \E batch \in Batches(Cur(TRUE)) :
       \E m \in Outcomes(windowProcess(Cur(TRUE), FALSE, batch),
                         windowProcess(Cur(FALSE), FALSE, batch)) :
          After(m, "destroyed")

WindowDestroyAgain ==
    /\ impl = "wl" /\ pc = "destroyed"
    /\ \E survive \in BOOLEAN :
       \E m \in {windowDestroy(Cur(survive))} : After(m, "destroyed")

RpgtkWindowProcessDestroyed ==
    /\ impl = "tk" /\ pc = "destroyed"
    /\ \E batch \in Batches(Cur(TRUE)) :
       \E m \in {Received(rpgtk_windowProcess(Cur(TRUE), FALSE, batch), batch)} :
          After(m, "destroyed")

RpgtkWindowDestroyAgain ==
    /\ impl = "tk" /\ pc = "destroyed"
    /\ \E m \in {rpgtk_windowDestroy(Cur(TRUE))} : After(m, "destroyed")

NextReuse ==
    \/ Next
    \/ WindowProcessDestroyed
    \/ WindowDestroyAgain
    \/ RpgtkWindowProcessDestroyed
    \/ RpgtkWindowDestroyAgain

SpecReuse == Init /\ [][NextReuse]_vars

\* ---- a server with two outputs ------------------------------------------
\* The registry announces the compositor, the shell and two wl_output globals.
TwoOutputs(m) ==
    {<<Global(m, "wl_compositor", v), Global(m, "xdg_wm_base", v),
       Global(m, "wl_output", v), Global(m, "wl_output", v)>> : v \in Versions}

WindowCreateTwoOutputs ==
    /\ impl = "wl" /\ pc = "start"
    /\ \E title \in Titles, survive \in BOOLEAN :
       \E globals \in TwoOutputs(Cur(survive)) :
       \E m \in {windowCreate(Called(Cur(survive), title), title, TRUE, globals)} :
          After(m, IF m.ret THEN "running" ELSE "failed")

RpgtkWindowCreateTwoOutputs ==
    /\ impl = "tk" /\ pc = "start"
    /\ \E title \in Titles, survive \in BOOLEAN :
       \E globals \in TwoOutputs(Cur(survive)) :
       \E begin \in {tkwin_waylandCreateBegin(Called(Cur(survive), title),
                                              TRUE, globals)} :
       \E batch \in Batches(begin) :
       \E m \in {Received(tkwin_waylandCreateEnd(begin, batch), batch)} :
          After(m, IF m.ret THEN "running" ELSE "failed")

NextTwoOutputs ==
    \/ WindowCreateTwoOutputs
    \/ WindowProcess
    \/ WindowClose
    \/ WindowDestroy
    \/ RpgtkWindowCreateTwoOutputs
    \/ RpgtkWindowProcess
    \/ TkwinWaylandPoll
    \/ RpgtkWindowClose
    \/ RpgtkWindowDestroy

SpecTwoOutputs == Init /\ [][NextTwoOutputs]_vars

\* ---- a server with a large screen --------------------------------------
\* Sizes and factors whose products pass the largest int32_t and still fit in a
\* uint32_t.
Quarter == 2 ^ (WordBits - 2)

LargeSizes == {<<Quarter, 1>>, <<1, Quarter>>, <<Quarter, Quarter>>}

LargeScales == {1, 2, 3}

LargeEventsOf(m, p) ==
    IF m.proxies[p].interface = "xdg_toplevel"
        THEN {[kind |-> "toplevel_configure", obj |-> p, args |-> a] : a \in LargeSizes}
    ELSE IF m.proxies[p].interface = "wl_output"
        THEN {[kind |-> "scale", obj |-> p, args |-> <<f>>] : f \in LargeScales}
    ELSE {}

LargeBatches(m) ==
    Seqs(UNION {LargeEventsOf(m, p) : p \in {q \in 1..Len(m.proxies) : m.proxies[q].alive}},
         Min(MaxBatch, MaxEvents - m.hist.calls))

WindowProcessLarge ==
    /\ impl = "wl" /\ pc = "running"
    /\ \E batch \in LargeBatches(Cur(TRUE)) :
       \E core \in Outcomes(windowProcess(Cur(TRUE), FALSE, batch),
                            windowProcess(Cur(FALSE), FALSE, batch)) :
       \E m \in {Polled(core, core, batch)} :
          After(m, "running")

RpgtkWindowProcessLarge ==
    /\ impl = "tk" /\ pc = "running"
    /\ \E batch \in LargeBatches(Cur(TRUE)) :
       \E core \in {tkwin_waylandPoll(Cur(TRUE), FALSE, batch)} :
       \E m \in {Polled(core, rpgtk_windowProcess(Cur(TRUE), FALSE, batch), batch)} :
          After(m, "running")

NextLarge ==
    \/ WindowCreate
    \/ RpgtkWindowCreate
    \/ WindowProcessLarge
    \/ RpgtkWindowProcessLarge

SpecLarge == Init /\ [][NextLarge]_vars

\* ---- a server that waits for the initial commit -------------------------
\* An xdg-shell compositor sends the first configure sequence (the toplevel's
\* configure, then the shell-surface's) in answer to the first commit of the
\* surface: none before it, and after it before anything else.
Committed(m) == \E i \in 1..Len(m.sent) : m.sent[i].op = "commit"

FirstConfigure(m) ==
    {<<t, c>> : t \in {e \in Events(m) : e.kind = "toplevel_configure"},
                c \in {e \in Events(m) : e.kind = "configure"}}

PoliteBatches(m) ==
    IF ~Committed(m)
        THEN {b \in Batches(m) :
                \A i \in 1..Len(b) : b[i].kind \notin {"toplevel_configure", "configure"}}
    ELSE IF m.hist.configures = <<>> THEN FirstConfigure(m)
    ELSE Batches(m)

\* The caller of the scenario: it creates the window and then keeps calling
\* the dispatch, on a transport that does not fail.
PoliteWindowProcess ==
    /\ impl = "wl" /\ pc = "running"
    /\ \E batch \in PoliteBatches(Cur(TRUE)) :
       \E core \in {windowProcess(Cur(TRUE), FALSE, batch)} :
       \E m \in {Polled(core, core, batch)} :
          After(m, "running")

PoliteRpgtkWindowCreate ==
    /\ impl = "tk" /\ pc = "start"
    /\ \E title \in Titles, connects \in BOOLEAN, survive \in BOOLEAN :
       \E globals \in Announcements(Cur(survive)) :
       \E begin \in {tkwin_waylandCreateBegin(Called(Cur(survive), title),
                                              connects, globals)} :
       \E batch \in PoliteBatches(begin) :
       \E m \in {Received(tkwin_waylandCreateEnd(begin, batch), batch)} :
          After(m, IF m.ret THEN "running" ELSE "failed")

PoliteRpgtkWindowProcess ==
    /\ impl = "tk" /\ pc = "running"
    /\ \E batch \in PoliteBatches(Cur(TRUE)) :
       \E core \in {tkwin_waylandPoll(Cur(TRUE), FALSE, batch)} :
       \E m \in {Polled(core, rpgtk_windowProcess(Cur(TRUE), FALSE, batch), batch)} :
          After(m, "running")

NextPolite ==
    \/ WindowCreate
    \/ PoliteWindowProcess
    \/ PoliteRpgtkWindowCreate
    \/ PoliteRpgtkWindowProcess

SpecPolite ==
    /\ Init /\ [][NextPolite]_vars
    /\ WF_vars(PoliteWindowProcess)
    /\ WF_vars(PoliteRpgtkWindowProcess)

\* ---- what the callers read -------------------------------------------
\* currentSize(): windowGetSize / rpgtk_windowGetSize
currentSize ==
    IF impl = "wl" THEN windowGetSize(Cur(TRUE)) ELSE rpgtk_windowGetSize(Cur(TRUE))

\* The close-requested flag: pClose / window.shouldClose
closeFlag == IF impl = "wl" THEN pClose ELSE shouldClose

ChainOps == {"create_surface", "get_xdg_surface", "get_toplevel", "set_title",
             "set_app_id", "set_fullscreen", "commit"}

DestroyedInterfaces == [i \in 1..Len(destroyed) |-> proxies[destroyed[i]].interface]

Pongs == SelectSeq(sent, LAMBDA r : r.op = "pong")

\* ---- claims ------------------------------------------------------------

\* C1: after any sequence of scale and configure events, currentSize() is the
\* logical size of the last configure event times the factor of the last scale
\* event, whichever of the two came last.
C1_SizeIsLastLogicalTimesLastScale ==
    (pc = "running" /\ hist.logical # <<>> /\ hist.scale # 0)
        => currentSize = <<hist.logical[1] * hist.scale, hist.logical[2] * hist.scale>>

\* C2: the scale factor is 1 until a scale event arrives: a configure event (w,h)
\* handled before any scale event makes currentSize() return (w,h).
C2_ScaleDefaultsToOne ==
    (pc = "running" /\ hist.logical # <<>> /\ hist.scale = 0)
        => currentSize = hist.logical

\* C3: once a toplevel close event has been dispatched the close-requested flag
\* reads as set in every later state.
C3_CloseFlagStaysSet == hist.closeSeen => closeFlag

\* C4: no commit of the base surface is sent before the first ack_configure.
C4_AckBeforeFirstCommit ==
    \A i \in 1..Len(sent) :
        sent[i].op = "commit" => \E j \in 1..(i - 1) : sent[j].op = "ack_configure"

\* C5: disconnect destroys toplevel, shell-surface, base surface, shell base
\* object, output, compositor, registry and transport, in this order.
C5_DestroyOrder ==
    pc = "destroyed"
        => DestroyedInterfaces =
             SelectSeq(<<"xdg_toplevel", "xdg_surface", "wl_surface", "xdg_wm_base",
                         "wl_output", "wl_compositor", "wl_registry", "wl_display">>,
                       LAMBDA i : i # "wl_output" \/ pOutput # NULL)

\* C6: when the round trip leaves the compositor or the shell unbound, connect
\* returns false and sends no request of the surface chain.
C6_NoSurfaceChainWithoutGlobals ==
    (pc # "start" /\ pDisplay # NULL /\ (pCompositor = NULL \/ pShell = NULL))
        => /\ pc = "failed"
           /\ ~ret
           /\ \A i \in 1..Len(sent) : sent[i].op \notin ChainOps

\* C7: every request is sent on a live proxy and refers only to live proxies;
\* the output argument of set_fullscreen alone may be absent.
C7_RequestsOnLiveProxies ==
    \A i \in 1..Len(sent) :
        /\ sent[i].live
        /\ \/ sent[i].ref \in {"none", "live"}
           \/ sent[i].op = "set_fullscreen" /\ sent[i].ref = "null"

\* C8: every ping dispatched for the shell base object is answered in the same
\* dispatch by exactly one pong on that object with the same serial, before and
\* after the close flag is set; a bound shell has its listener from the step
\* that binds it.
C8_EveryPingAnswered ==
    /\ Len(Pongs) = Len(hist.pings)
    /\ \A i \in 1..Len(Pongs) :
          /\ Pongs[i].proxy = hist.pings[i].obj
          /\ Pongs[i].arg = <<hist.pings[i].serial>>
          /\ Pongs[i].live
          /\ Pongs[i].interface = "xdg_wm_base"
    /\ \A p \in 1..Len(proxies) :
          (proxies[p].interface = "xdg_wm_base" /\ proxies[p].alive)
              => proxies[p].listener

\* Reached: a ping that came after the close event has its pong.
C8_Witness ==
    /\ \E i \in 1..Len(hist.pings) : hist.pings[i].afterClose
    /\ Len(Pongs) = Len(hist.pings)

\* C9: a dispatch (windowProcess / tkwin_waylandPoll) whose transport read fails
\* returns false and calls no listener: size, scale, close flag, proxies and the
\* requests sent are as before the call.
C9_FailedReadDispatchesNothing ==
    hist.lastFail # <<>>
        => /\ ~hist.lastFail.ret
           /\ hist.lastFail.after = hist.lastFail.before

\* Reached: a dispatch has failed after events had been handled.
C9_Witness == pc = "running" /\ hist.lastFail # <<>> /\ hist.calls > 0

\* C10: once a dispatch has returned false every later dispatch returns false
\* and dispatches nothing.
C10_FailureIsPermanent ==
    (pc = "running" /\ hist.failed) => (~ret /\ hist.calls = hist.failCalls)

\* Reached: a dispatch was called again after one had returned false.
C10_Witness == pc = "running" /\ hist.failedAgain /\ hist.failCalls > 0

Running ==
    \E i, j \in 1..Len(sent) :
        i < j /\ sent[i].op = "ack_configure" /\ sent[j].op = "commit"

\* C12: with a compositor and a shell but no output announced, connect
\* succeeds, set_fullscreen carries no output, and under a server that sends the
\* first configure in answer to the initial commit, and a caller that keeps
\* dispatching, Running is reached.
C12_NoOutputReachesRunning ==
    /\ [](pc \in {"failed", "crashed", "undefined"}
            => (pDisplay = NULL \/ pCompositor = NULL \/ pShell = NULL))
    /\ []((pc = "running" /\ pOutput = NULL)
            => \E i \in 1..Len(sent) :
                  sent[i].op = "set_fullscreen" /\ sent[i].ref = "null")
    /\ ((pc = "running" /\ pOutput = NULL) ~> Running)

\* C13: when a scale event with factor s was dispatched and the last toplevel
\* configure event (w,h) was dispatched after it, with no scale event since,
\* currentSize() is (w*s, h*s).
C13_ScaleThenConfigure ==
    (pc = "running" /\ hist.scale # 0 /\ hist.resized)
        => currentSize = <<hist.logical[1] * hist.scale, hist.logical[2] * hist.scale>>

C13_Witness ==
    /\ pc = "running" /\ hist.scale = 2 /\ hist.resized
    /\ hist.logical = <<1, 2>> /\ currentSize = <<2, 4>>

Commits(log) == Cardinality({i \in 1..Len(log) : log[i].op = "commit"})

Resizes(handled) ==
    Cardinality({i \in 1..Len(handled) : handled[i].kind = "toplevel_configure"})

\* C14: once Running, a dispatch call issues exactly as many commit requests on
\* the base surface as it handles toplevel configure events (the stored size
\* itself is the subject of C1, C2 and C13).
C14_OneCommitPerConfigure ==
    [][(Running /\ pc' = "running")
        => Commits(sent') - Commits(sent) = Resizes(hist'.handled)]_vars

\* The transport was closed: wl_display_disconnect ran on the display.
Disconnected == pDisplay # NULL /\ ~proxies[pDisplay].alive

\* C15: once the proxies were destroyed and the transport closed, a later client
\* operation is rejected: it sends nothing, changes no proxy and dereferences
\* neither a destroyed proxy nor the closed transport.
C15_UseAfterDestroyRejected ==
    [][(Disconnected /\ pc = "destroyed")
        => (pc' = "destroyed" /\ sent' = sent /\ proxies' = proxies)]_vars

\* C16: closing a transport that is already closed is a no-op: the second
\* destroy call changes no state, sends no request and releases nothing again.
C16_DisconnectIdempotent ==
    [][(Disconnected /\ (WindowDestroyAgain \/ RpgtkWindowDestroyAgain))
        => UNCHANGED <<pc, sent, proxies, destroyed>>]_vars

\* C17: the shell base object is bound at the smaller of the version the server
\* advertised and the version of the client's interface descriptor, so never
\* above the descriptor's version.
C17_BoundAtCappedVersion ==
    (pShell # NULL /\ hist.advertised # 0)
        => VersionOf(Cur(TRUE), pShell) = Min(hist.advertised, xdg_wm_base_version)

\* C18: when the transport cannot be opened, the create call returns false
\* before any proxy is created or any request is sent.
C18_ConnectFailureSendsNothing ==
    (pc # "start" /\ pDisplay = NULL)
        => (pc = "failed" /\ ~ret /\ proxies = <<>> /\ sent = <<>>)

C18_Witness == pc = "failed" /\ pDisplay = NULL /\ ~ret /\ sent = <<>>

Titled == {i \in 1..Len(sent) : sent[i].op = "set_title"}

\* C19: the set_title request sent by the create call carries the title the
\* caller passed, and it is the only set_title request ever sent.
C19_TitleIsCallersTitle ==
    pc \in {"running", "destroyed"}
        => /\ Cardinality(Titled) = 1
           /\ \A i \in Titled : sent[i].arg = <<hist.title>>

\* The window has been closed: a toplevel close event was dispatched, or the
\* close operation was called.
CloseRequested == hist.closeSeen \/ pClose

\* C20: once the window has been closed, the next call of the process
\* operation returns false, so a loop that polls until false ends.
C20_ProcessFalseAfterClose ==
    [][(CloseRequested /\ (WindowProcess \/ RpgtkWindowProcess)) => ~ret']_vars

\* The requests of the bootstrap, in the order the create functions issue them
\* (the binds go out while the round trip that follows the sync dispatches).
BootstrapOrder ==
    <<"get_registry", "sync", "create_surface", "get_xdg_surface", "get_toplevel",
      "set_title", "set_app_id", "set_fullscreen">>

Bootstrap ==
    SelectSeq(sent, LAMBDA r : \E k \in 1..Len(BootstrapOrder) : r.op = BootstrapOrder[k])

First(op) == CHOOSE i \in 1..Len(sent) : sent[i].op = op /\ \A j \in 1..(i - 1) : sent[j].op # op

\* C22: the bootstrap requests go out in the fixed order registry, round trip
\* with its binds, base surface, shell-surface, toplevel, title, application id,
\* fullscreen; and each request of the surface chain is sent on an object that
\* exists, naming only objects that exist (no state of the bootstrap is skipped).
C22_BootstrapInOrder ==
    /\ \A i \in 1..Len(sent) :
          sent[i].op \in {"create_surface", "get_xdg_surface", "get_toplevel",
                          "set_title", "set_app_id", "set_fullscreen"}
              => sent[i].live /\ sent[i].ref # "dead"
                 /\ (sent[i].op = "get_xdg_surface" => sent[i].ref = "live")
    /\ pc \in {"running", "destroyed"}
          => /\ Len(Bootstrap) >= Len(BootstrapOrder)
             /\ \A k \in 1..Len(BootstrapOrder) : Bootstrap[k].op = BootstrapOrder[k]
             /\ \A i \in 1..Len(sent) :
                   sent[i].op = "bind" => First("sync") < i /\ i < First("create_surface")

\* The interfaces whose events the program handles.
Listened == {"wl_registry", "xdg_wm_base", "xdg_surface", "xdg_toplevel", "wl_output"}

\* C23: whenever an event can be dispatched, every live proxy of the shell base,
\* shell-surface, toplevel and output (and the registry) has its listener, and no
\* event was dropped for lack of one.
C23_ListenerBeforeDispatch ==
    /\ ~hist.dropped
    /\ \A p \in 1..Len(proxies) :
          (proxies[p].alive /\ proxies[p].interface \in Listened) => proxies[p].listener

C23_Witness ==
    /\ pc = "running" /\ ~hist.dropped
    /\ hist.pings # <<>> /\ hist.scale # 0

\* A dispatch call handled close events and nothing else.
OnlyCloseHandled ==
    /\ pc = "running"
    /\ hist'.handled # <<>>
    /\ hist'.calls - hist.calls = Len(hist'.handled)
    /\ \A i \in 1..Len(hist'.handled) : hist'.handled[i].kind = "close"

\* C24: handling a toplevel close event sends no request, destroys no proxy and
\* leaves the stored size, the scale factor and the transport as they were.
C24_CloseChangesOnlyTheFlag ==
    [][OnlyCloseHandled
        => UNCHANGED <<sent, proxies, destroyed, pWidth, pHeight, pScale, displayError,
                       pDisplay, pRegistry, pCompositor, pShell, pOutput, pSurface,
                       pShellSurface, pToplevel>>]_vars

C24_Witness ==
    /\ pc = "running" /\ closeFlag /\ hist.calls = 1
    /\ Len(hist.handled) = 1 /\ hist.handled[1].kind = "close"

Acks == SelectSeq(sent, LAMBDA r : r.op = "ack_configure")

\* C25: the acknowledgements carry the serials of the shell-surface configure
\* events handled, in the order they arrived (the handlers acknowledge each one),
\* so the last ack_configure carries the serial of the last configure event and
\* no acknowledgement carries a serial that was not received.
C25_AckCarriesLastSerial ==
    /\ Len(Acks) = Len(hist.configures)
    /\ \A i \in 1..Len(Acks) :
          Acks[i].arg = <<hist.configures[i]>> /\ Acks[i].interface = "xdg_surface"

C25_Witness ==
    /\ pc = "running" /\ Len(hist.configures) = 2
    /\ hist.configures[1] # hist.configures[2]
    /\ Acks[Len(Acks)].arg = <<hist.configures[2]>>

\* A dispatch call handled toplevel capabilities events and nothing else.
OnlyCapabilitiesHandled ==
    /\ pc = "running"
    /\ hist'.caps > hist.caps
    /\ hist'.caps - hist.caps = hist'.calls - hist.calls

\* C26: handling a toplevel capabilities event, with or without fullscreen in
\* its list, sends no request, changes neither size, scale nor close flag, and
\* the dispatch call that handled it does not return false.
C26_CapabilitiesAreAdvisory ==
    [][OnlyCapabilitiesHandled
        => /\ UNCHANGED <<sent, proxies, pWidth, pHeight, pScale, displayError>>
           /\ closeFlag' = closeFlag
           /\ ret' /\ pc' = "running"]_vars

C26_Witness == pc = "running" /\ hist.caps = 2 /\ hist.calls = 2 /\ ret

LiveOf(interface) ==
    {p \in 1..Len(proxies) : proxies[p].alive /\ proxies[p].interface = interface}

\* C27: after the registry round trip at most one compositor proxy, one shell
\* proxy and one output proxy are live, however many globals of an interface
\* were announced, and each of them is the one the program's pointer refers to.
C27_EachGlobalBoundOnce ==
    pc = "running"
        => /\ LiveOf("wl_compositor") \subseteq {pCompositor}
           /\ LiveOf("xdg_wm_base") \subseteq {pShell}
           /\ LiveOf("wl_output") \subseteq {pOutput}

\* C28: after the destroy call returns no proxy of the connection is live and
\* the transport (the display) is closed.
C28_NoProxyOutlivesConnection ==
    pc = "destroyed" => \A p \in 1..Len(proxies) : ~proxies[p].alive

\* C29: whenever the create call returns false, the transport is not open and
\* no proxy is live: what a failed bootstrap had opened and bound is released.
C29_FailedCreateReleasesAll ==
    (pc = "failed" /\ ~ret) => \A p \in 1..Len(proxies) : ~proxies[p].alive

\* The interfaces whose requests Source/Wayland.c marshals by raw opcode.
Described == {"xdg_toplevel", "xdg_surface", "xdg_wm_base"}

\* C30: every request marshalled by raw opcode has an opcode below method_count
\* whose table entry is non-empty, is the request meant, and has a signature of
\* the number and kinds of arguments passed; each listener table has event_count
\* callbacks, in the order of the descriptor's events and with their kinds.
C30_RawOpcodesAreDeclared ==
    /\ \A i \in 1..Len(sent) :
          (impl = "wl" /\ sent[i].interface \in Described)
              => /\ RawOpcode(sent[i].interface, sent[i].op) \in
                        0..(method_count(sent[i].interface) - 1)
                 /\ method_count(sent[i].interface) = Len(methods(sent[i].interface))
                 /\ methods(sent[i].interface)[RawOpcode(sent[i].interface, sent[i].op) + 1]
                        = Message(sent[i].op, methods(sent[i].interface)
                                       [RawOpcode(sent[i].interface, sent[i].op) + 1].signature)
                 /\ Kinds(methods(sent[i].interface)
                            [RawOpcode(sent[i].interface, sent[i].op) + 1].signature)
                        = Passed(sent[i].op)
    /\ \A p \in 1..Len(proxies) :
          (impl = "wl" /\ proxies[p].interface \in Described /\ proxies[p].listener)
              => /\ Len(listener(proxies[p].interface)) = event_count(proxies[p].interface)
                 /\ Len(events(proxies[p].interface)) = event_count(proxies[p].interface)
                 /\ \A k \in 1..event_count(proxies[p].interface) :
                       /\ listener(proxies[p].interface)[k].event
                             = events(proxies[p].interface)[k].name
                       /\ listener(proxies[p].interface)[k].takes
                             = Kinds(events(proxies[p].interface)[k].signature)

C30_Witness ==
    /\ impl = "wl" /\ pc = "destroyed" /\ Pongs # <<>> /\ Acks # <<>>
    /\ \E i \in 1..Len(sent) : sent[i].op = "set_fullscreen"

\* A toplevel configure event was handled after the last scale event, and the
\* products of its size with the factor fit in a uint32_t.
ProductsFit ==
    /\ hist.scale > 0 /\ hist.resized
    /\ hist.logical[1] * hist.scale < 2 ^ WordBits
    /\ hist.logical[2] * hist.scale < 2 ^ WordBits

\* C31: for a configure event (w,h) with w, h >= 0 and a scale s > 0 whose
\* products fit in a uint32_t, the call of a running window that handles the
\* event returns normally and currentSize() is exactly (w*s, h*s): no signed
\* intermediate overflows.
C31_ExactProducts ==
    [][(pc = "running" /\ hist'.calls > hist.calls /\ ProductsFit')
          => /\ pc' = "running"
             /\ currentSize' = <<hist'.logical[1] * hist'.scale,
                                 hist'.logical[2] * hist'.scale>>]_vars

====
